---- MODULE Spec2Model ----
(***************************************************************************)
(* DBF -> SQL change-data-capture pipeline (InfinityNT/dbf_to_sql).        *)
(*                                                                         *)
(* The model covers the record reader (src/dbf/reader.py), the delta       *)
(* detector (src/dbf/delta.py), the sync engine (src/dbf/sync.py) and the  *)
(* watcher (src/dbf/watcher.py).  The SQL database is modelled by its      *)
(* committed contents; the SQLAlchemy session of a running                 *)
(* process_dbf_file call by the attributes of the file-state object that   *)
(* are assigned but not yet flushed.                                       *)
(*                                                                         *)
(* process_dbf_file, _apply_changes and the upserts are coroutines that    *)
(* never await a future, so one call runs without yielding to the event    *)
(* loop: at most one call is executing at a time (variable run).  The only *)
(* suspension point of the watcher is the debounce sleep of _process_file. *)
(***************************************************************************)
EXTENDS Integers, Sequences, FiniteSets, TLC

VARIABLES
    disk,        \* path -> contents of the DBF file on disk
    fileState,   \* path -> committed dbf_file_state row
    syncLog,     \* committed sync_log rows, in insertion order
    tables,      \* committed domain tables customers / products / movements
    run,         \* the process_dbf_file / bulk_load_file call being executed
    processing,  \* DBFFileHandler.processing
    tasks,       \* the _process_file tasks created by on_modified, oldest first
                 \* (the event loop starts and wakes them in that order)
    scan,        \* the _initial_scan task
    env          \* the environment: files written (files) and reported modified
                 \* (events), remaining perturbations (steps) and direct calls (runs)

vars == <<disk, fileState, syncLog, tables, run, processing, tasks, scan, env>>

----------------------------------------------------------------------------
(* Bounds *)

MaxRecs == 2       \* records in a DBF file
MaxEnv == 2        \* file writes, raising SQL statements and kills, together
MaxRuns == 2       \* calls of process_dbf_file / bulk_load_file
MaxTasks == 3      \* _process_file tasks alive at a time
MaxWatchEnv == 1   \* file writes, raising SQL statements and kills under the watcher

----------------------------------------------------------------------------
(* Strings are sequences of one-character strings. *)

Null == <<"NULL">>          \* Python None / SQL NULL

IsSpace(c) == c = " "

RECURSIVE LStrip(_)
LStrip(s) == IF s # <<>> /\ IsSpace(Head(s)) THEN LStrip(Tail(s)) ELSE s

RECURSIVE RStrip(_)
RStrip(s) ==
    IF s # <<>> /\ IsSpace(s[Len(s)]) THEN RStrip(SubSeq(s, 1, Len(s) - 1)) ELSE s

\* str.strip()
Strip(s) == RStrip(LStrip(s))

\* sync.py: value.strip() if value else None
Clean(v) == IF v = <<>> \/ v = Null THEN Null ELSE Strip(v)

Lower(c) ==
    CASE c = "C" -> "c" [] c = "L" -> "l" [] c = "I" -> "i" [] c = "E" -> "e"
      [] c = "N" -> "n" [] c = "T" -> "t" [] c = "S" -> "s" [] c = "A" -> "a"
      [] c = "R" -> "r" [] c = "M" -> "m" [] c = "O" -> "o" [] c = "V" -> "v"
      [] c = "D" -> "d" [] c = "B" -> "b" [] c = "F" -> "f" [] c = "U" -> "u"
      [] OTHER -> c

LowerStr(s) == [i \in 1..Len(s) |-> Lower(s[i])]

\* Python: sub in s
Contains(s, sub) ==
    \E i \in 1..(Len(s) - Len(sub) + 1) : SubSeq(s, i, i + Len(sub) - 1) = sub

----------------------------------------------------------------------------
(* Files *)

Paths == {"clientes.dbf", "ARTS.DBF", "movim.dbf", "otros.dbf"}

\* Path(file_path).name
FileName(p) ==
    CASE p = "clientes.dbf" -> <<"c","l","i","e","n","t","e","s",".","d","b","f">>
      [] p = "ARTS.DBF"     -> <<"A","R","T","S",".","D","B","F">>
      [] p = "movim.dbf"    -> <<"m","o","v","i","m",".","d","b","f">>
      [] p = "otros.dbf"    -> <<"o","t","r","o","s",".","d","b","f">>

get_table_name(file_name) ==
    LET file_name_lower == LowerStr(file_name) IN
    IF Contains(file_name_lower, <<"c","l","i","e","n","t","e","s">>) THEN "customers"
    ELSE IF \/ Contains(file_name_lower, <<"a","r","t","s">>)
            \/ Contains(file_name_lower, <<"a","r","t","i","c","u","l","o","s">>)
         THEN "products"
    ELSE IF \/ Contains(file_name_lower, <<"m","o","v","i","m">>)
            \/ Contains(file_name_lower, <<"m","o","v","i","m","i","e","n","t","o","s">>)
         THEN "movements"
    ELSE "unknown"

TargetFiles ==
    { <<"c","l","i","e","n","t","e","s",".","d","b","f">>,
      <<"a","r","t","s",".","d","b","f">>,
      <<"m","o","v","i","m",".","d","b","f">> }

\* a filter that lets every file through
should_process_any_file(p) == TRUE

should_process_file(p) == LowerStr(FileName(p)) \in TargetFiles

\* A record of a DBF file: the natural-key field (NUMCLI / NUMART) and one
\* other field, both strings.
Records ==
    { [key |-> <<"A">>, val |-> <<"x">>],
      [key |-> <<"A">>, val |-> <<"y">>],
      [key |-> <<"B">>, val |-> <<"x">>] }

\* The raw bytes of a record: one byte per character of its fields.
Code(c) ==
    CASE c = "A" -> 65 [] c = "B" -> 66 [] c = "C" -> 67 [] c = "D" -> 68
      [] c = "x" -> 120 [] c = "y" -> 121 [] c = " " -> 32 [] OTHER -> 63

RecordBytes(r) ==
    [i \in 1..(Len(r.key) + Len(r.val)) |->
        IF i <= Len(r.key) THEN Code(r.key[i]) ELSE Code(r.val[i - Len(r.key)])]

----------------------------------------------------------------------------
(* CRC-32 (zlib.crc32), bit by bit.  A 32-bit value is the pair <<high 16    *)
(* bits, low 16 bits>>.                                                      *)

RECURSIVE Xor(_, _)
Xor(a, b) ==
    IF a = 0 THEN b
    ELSE IF b = 0 THEN a
    ELSE (((a % 2) + (b % 2)) % 2) + 2 * Xor(a \div 2, b \div 2)

Xor32(u, v) == <<Xor(u[1], v[1]), Xor(u[2], v[2])>>

Shr32(u) == <<u[1] \div 2, (u[2] \div 2) + ((u[1] % 2) * 32768)>>

CrcPoly == <<60856, 33568>>     \* 0xEDB88320
CrcOnes == <<65535, 65535>>     \* 0xFFFFFFFF

\* k shift steps of the register u (each intermediate register is bound as a
\* value before the next step)
RECURSIVE CrcBits(_, _)
CrcBits(u, k) ==
    IF k = 0 THEN u
    ELSE CHOOSE w \in
             {CrcBits(v, k - 1) :
                 v \in {IF u[2] % 2 = 1 THEN Xor32(Shr32(u), CrcPoly) ELSE Shr32(u)}} : TRUE

RECURSIVE CrcBytes(_, _)
CrcBytes(u, bytes) ==
    IF bytes = <<>> THEN u
    ELSE CHOOSE w \in
             {CrcBytes(v, Tail(bytes)) :
                 v \in {CrcBits(Xor32(u, <<0, Head(bytes)>>), 8)}} : TRUE

\* zlib.crc32(record_data) & 0xffffffff
crc32(bytes) == Xor32(CrcBytes(CrcOnes, bytes), CrcOnes)

\* Records whose key field starts with a blank (a right-aligned key)
PaddedRecords == { [key |-> <<" ", "A">>, val |-> <<"x">>],
                   [key |-> <<" ", "A">>, val |-> <<"y">>] }

\* Records whose natural-key field is blank: dbfread returns it as ''
KeylessRecords == {[key |-> <<>>, val |-> <<"x">>], [key |-> <<>>, val |-> <<"y">>]}

\* Four records A, B, C, D of one table
ScenarioRecords == {[key |-> <<k>>, val |-> <<"x">>] : k \in {"A", "B", "C", "D"}}

\* The record_length bytes of a record slice: the deletion flag (a blank, or
\* an asterisk once the ERP has marked the record as deleted), then the fields
SliceBytes(r, deleted) ==
    [i \in 1..(1 + Len(r.key) + Len(r.val)) |->
        IF i = 1 THEN (IF deleted THEN 42 ELSE 32) ELSE RecordBytes(r)[i - 1]]

CrcOf ==
    [r \in Records \cup PaddedRecords \cup ScenarioRecords \cup KeylessRecords |->
        crc32(SliceBytes(r, FALSE))]

\* the checksums of the slices of records marked as deleted
DeletedCrcOf == [r \in Records |-> crc32(SliceBytes(r, TRUE))]

----------------------------------------------------------------------------
(* DBF reader (src/dbf/reader.py).  A file on disk is                        *)
(*   exists       the path exists,                                           *)
(*   header_ok    the 32-byte header can be read and decoded,                *)
(*   memo_ok      the memo sidecar (DBT / FPT) is there if the file needs one, *)
(*   num_records  the record count of the header,                            *)
(*   recs         the complete record slices that follow the header,         *)
(*   deleted      the positions in recs of the slices marked as deleted.     *)

\* open() or the decoding of the header raises
ReadFails(f) == ~f.exists \/ ~f.header_ok

\* DBF(...) or the iteration over its records raises
DecodeFails(f) == ReadFails(f) \/ ~f.memo_ok

NoFile == [exists |-> FALSE, header_ok |-> FALSE, memo_ok |-> TRUE, num_records |-> 0,
           recs |-> <<>>, deleted |-> {}]

\* a file shorter than its 32-byte header
Truncated == [exists |-> TRUE, header_ok |-> FALSE, memo_ok |-> TRUE, num_records |-> 0,
              recs |-> <<>>, deleted |-> {}]

\* a well-formed file holding the record array q
Table(q) == [exists |-> TRUE, header_ok |-> TRUE, memo_ok |-> TRUE,
             num_records |-> Len(q), recs |-> q, deleted |-> {}]

EmptyMap == [i \in {} |-> <<0, 0>>]

\* Every exception of the reader is caught inside it and {} is returned.
\* a reader that leaves the first slice of a longer file out
compute_record_checksums_without_first(f) ==
    IF ReadFails(f) THEN EmptyMap
    ELSE [i \in {j \in 0..(f.num_records - 1) :
                    j + 1 <= Len(f.recs) /\ (j = 0 => Len(f.recs) = 1)} |->
             CrcOf[f.recs[i + 1]]]

compute_record_checksums(f) ==
    IF ReadFails(f) THEN EmptyMap
    ELSE [i \in {j \in 0..(f.num_records - 1) : j + 1 <= Len(f.recs)} |->
             IF i + 1 \in f.deleted THEN DeletedCrcOf[f.recs[i + 1]]
             ELSE CrcOf[f.recs[i + 1]]]

\* for record in dbf: the DBF iterator yields the records that are not marked
\* as deleted, in file order
ActiveRecords(f) ==
    IF f.deleted = {} THEN f.recs
    ELSE LET keep == {i \in 1..Len(f.recs) : i \notin f.deleted}
         IN [k \in 1..Cardinality(keep) |->
                f.recs[CHOOSE i \in keep : Cardinality({j \in keep : j < i}) = k - 1]]

\* Every exception of the reader is caught inside it and [] is returned.
read_all_records(f) ==
    IF DecodeFails(f) THEN <<>> ELSE ActiveRecords(f)

----------------------------------------------------------------------------
(* Delta detector (src/dbf/delta.py) *)

Min(S) == CHOOSE x \in S : \A y \in S : x <= y

Max(S) == CHOOSE x \in S : \A y \in S : x >= y

\* a sort in descending order
RECURSIVE sorted_descending(_)
sorted_descending(S) ==
    IF S = {} THEN <<>> ELSE <<Max(S)>> \o sorted_descending(S \ {Max(S)})

\* sorted(list(S))
RECURSIVE sorted(_)
sorted(S) == IF S = {} THEN <<>> ELSE <<Min(S)>> \o sorted(S \ {Min(S)})

\* a detector that reports every common index as an update
compute_deltas_all_common(old_checksums, new_checksums) ==
    LET old_indices == DOMAIN old_checksums
        new_indices == DOMAIN new_checksums
    IN [inserts |-> sorted(new_indices \ old_indices),
        updates |-> sorted(old_indices \cap new_indices),
        deletes |-> sorted(old_indices \ new_indices)]

compute_deltas(old_checksums, new_checksums) ==
    LET old_indices == DOMAIN old_checksums
        new_indices == DOMAIN new_checksums
        inserts == new_indices \ old_indices
        deletes == old_indices \ new_indices
        common_indices == old_indices \cap new_indices
        updates == {idx \in common_indices : old_checksums[idx] # new_checksums[idx]}
    IN [inserts |-> sorted(inserts), updates |-> sorted(updates), deletes |-> sorted(deletes)]

has_changes(deltas) ==
    deltas.inserts # <<>> \/ deltas.updates # <<>> \/ deltas.deletes # <<>>

----------------------------------------------------------------------------
(* checksum_map column: NULL or the JSON text of an object whose keys are   *)
(* the decimal strings of the record indices.                               *)

Digits == <<"0", "1", "2", "3", "4", "5", "6", "7", "8", "9">>

\* str(i): the decimal digits of an index
RECURSIVE ToStr(_)
ToStr(i) ==
    IF i < 10 THEN <<Digits[i + 1]>>
    ELSE Append(ToStr(i \div 10), Digits[(i % 10) + 1])

\* int(k)
RECURSIVE ToInt(_)
ToInt(k) ==
    LET units == CHOOSE d \in 0..9 : Digits[d + 1] = k[Len(k)]
    IN IF Len(k) = 1 THEN units
       ELSE 10 * ToInt(SubSeq(k, 1, Len(k) - 1)) + units

NullText == [null |-> TRUE, obj |-> <<>>]

\* json.dumps(current_checksums)
json_dumps(m) ==
    [null |-> FALSE, obj |-> [k \in {ToStr(i) : i \in DOMAIN m} |-> m[ToInt(k)]]]

\* a parse that gives up and leaves the previous checksums empty
previous_checksums_unparsed(checksum_map) == EmptyMap

\* sync.py 55-62: the previous checksums read from the stored column
previous_checksums(checksum_map) ==
    IF checksum_map.null THEN EmptyMap
    ELSE [i \in {ToInt(k) : k \in DOMAIN checksum_map.obj} |-> checksum_map.obj[ToStr(i)]]

----------------------------------------------------------------------------
(* Domain tables (src/dbf/sync.py 164-268).  A table is the sequence of its *)
(* rows in insertion order; a row holds the natural-key column (numcli /   *)
(* numart) and the column of the other field.                              *)

\* db.query(...).filter(column == key).first(): position of the row, 0 if none
first(rows, key) ==
    IF \E i \in 1..Len(rows) : rows[i].key = key
    THEN Min({i \in 1..Len(rows) : rows[i].key = key})
    ELSE 0

\* _upsert_customer without its two key guards
upsert_customer_keeps_keyless(rows, record_data) ==
    LET numcli == Strip(record_data.key)
        customer == first(rows, numcli)
    IN IF customer # 0
       THEN [rows EXCEPT ![customer] =
                [key |-> Clean(record_data.key), val |-> Clean(record_data.val)]]
       ELSE Append(rows, [key |-> numcli, val |-> Clean(record_data.val)])

upsert_customer(rows, record_data) ==
    IF record_data.key = <<>> THEN rows
    ELSE LET numcli == Strip(record_data.key)
             customer == first(rows, numcli)
         IN IF numcli = <<>> THEN rows
            ELSE IF customer # 0
                 THEN [rows EXCEPT ![customer] =
                          [key |-> Clean(record_data.key), val |-> Clean(record_data.val)]]
                 ELSE Append(rows, [key |-> numcli, val |-> Clean(record_data.val)])

upsert_product(rows, record_data) ==
    IF record_data.key = <<>> THEN rows
    ELSE LET numart == Strip(record_data.key)
             product == first(rows, numart)
         IN IF numart = <<>> THEN rows
            ELSE IF product # 0
                 THEN [rows EXCEPT ![product] =
                          [key |-> record_data.key, val |-> record_data.val]]
                 ELSE Append(rows, [key |-> record_data.key, val |-> record_data.val])

upsert_movement(rows, record_data) ==
    Append(rows, [key |-> Clean(record_data.key), val |-> Clean(record_data.val)])

upsert_record(tbls, table_name, record_data) ==
    IF table_name = "customers"
    THEN [tbls EXCEPT !.customers = upsert_customer(@, record_data)]
    ELSE IF table_name = "products"
    THEN [tbls EXCEPT !.products = upsert_product(@, record_data)]
    ELSE IF table_name = "movements"
    THEN [tbls EXCEPT !.movements = upsert_movement(@, record_data)]
    ELSE tbls

\* rows without the one at position i
RemoveAt(rows, i) ==
    IF i \in 1..Len(rows)
    THEN SubSeq(rows, 1, i - 1) \o SubSeq(rows, i + 1, Len(rows))
    ELSE rows

\* a delete that removes the row at the position of the record
delete_record_removes(tbls, table_name, record_index) ==
    [t \in DOMAIN tbls |->
        IF t = table_name THEN RemoveAt(tbls[t], record_index + 1) ELSE tbls[t]]

\* _delete_record only logs a warning
delete_record(tbls, table_name, record_index) == tbls

\* an upsert loop that leaves the inserts out
upsert_indices_updates_only(deltas) == deltas.updates

\* 150: the indices the upsert loop iterates over
upsert_indices(deltas) == deltas.inserts \o deltas.updates

\* 145-154: the calls of _apply_changes in the order it makes them
visits(deltas) ==
    [i \in 1..Len(deltas.deletes) |->
        [op |-> "delete", record_index |-> deltas.deletes[i]]]
    \o [i \in 1..Len(upsert_indices(deltas)) |->
           [op |-> "upsert", record_index |-> upsert_indices(deltas)[i]]]

\* the loop of _apply_changes over deltas['inserts'] + deltas['updates']
RECURSIVE UpsertLoop(_, _, _, _)
UpsertLoop(acc, table_name, indices, all_records) ==
    IF indices = <<>> THEN acc
    ELSE LET record_index == Head(indices)
             next == IF record_index < Len(all_records)
                     THEN [tbls |-> upsert_record(acc.tbls, table_name,
                                                  all_records[record_index + 1]),
                           records_processed |-> acc.records_processed + 1]
                     ELSE acc
         IN UpsertLoop(next, table_name, Tail(indices), all_records)

\* the loop of _apply_changes over deltas['deletes']
RECURSIVE DeleteLoop(_, _, _)
DeleteLoop(acc, table_name, indices) ==
    IF indices = <<>> THEN acc
    ELSE DeleteLoop([tbls |-> delete_record(acc.tbls, table_name, Head(indices)),
                     records_processed |-> acc.records_processed + 1],
                    table_name, Tail(indices))

\* _apply_changes up to its commit: the tables it commits and the count it returns
apply_changes(tbls, table_name, deltas, all_records) ==
    UpsertLoop(DeleteLoop([tbls |-> tbls, records_processed |-> 0],
                          table_name, deltas.deletes),
               table_name, upsert_indices(deltas), all_records)

----------------------------------------------------------------------------
(* Committed database state *)

\* No dbf_file_state row for the path
NoRow == [present |-> FALSE, processing_status |-> "ABSENT", checksum_map |-> NullText,
          record_count |-> 0, error_message |-> FALSE]

\* Column default of dbf_file_state.record_count
DefaultRecordCount == 0

\* a row created with the status of a running sync
NewRow_StartsProcessing ==
    [present |-> TRUE, processing_status |-> "PROCESSING", checksum_map |-> NullText,
     record_count |-> 0, error_message |-> FALSE]

\* sync.py 37-41: DBFFileState(file_path, file_name, processing_status='PENDING')
NewRow == [present |-> TRUE, processing_status |-> "PENDING", checksum_map |-> NullText,
           record_count |-> DefaultRecordCount, error_message |-> FALSE]

NoTables == [customers |-> <<>>, products |-> <<>>, movements |-> <<>>]

\* an add that overwrites the newest entry of the log
db_add_over_last(log, sync_log) ==
    IF log = <<>> THEN <<sync_log>> ELSE [log EXCEPT ![Len(log)] = sync_log]

\* db.add(sync_log), made durable by the commit that follows: INSERT of one row
db_add(log, sync_log) == Append(log, sync_log)

\* SyncLog(...) row
SyncLogRow(path, op, record_count, records_processed, success) ==
    [file_path |-> path, table_name |-> get_table_name(FileName(path)),
     operation_type |-> op, record_count |-> record_count,
     records_processed |-> records_processed, success |-> success]

----------------------------------------------------------------------------
(* Session state of the running call: the attributes of file_state that are *)
(* assigned and not yet flushed.                                           *)

Clean0 == [has_map |-> FALSE, checksum_map |-> NullText, record_count |-> 0,
           processing_status |-> "", error_message |-> FALSE]

\* Session.flush of the file_state object: UPDATE of the modified attributes
Flush(row, dirty) ==
    [present |-> TRUE,
     processing_status |-> IF dirty.processing_status # "" THEN dirty.processing_status
                           ELSE row.processing_status,
     checksum_map |-> IF dirty.has_map THEN dirty.checksum_map ELSE row.checksum_map,
     record_count |-> IF dirty.has_map THEN dirty.record_count ELSE row.record_count,
     error_message |-> dirty.error_message \/ row.error_message]

NoDeltas == [inserts |-> <<>>, updates |-> <<>>, deletes |-> <<>>]

NoCaller == [kind |-> "none", id |-> 0]

Idle == [pc |-> "idle", op |-> "", path |-> "", caller |-> NoCaller,
         bound |-> FALSE, persistent |-> FALSE, dirty |-> Clean0,
         current_checksums |-> EmptyMap, deltas |-> NoDeltas, records_processed |-> 0,
         result |-> "", raised_at |-> "",
         entered |-> FALSE, applied |-> FALSE, read_failed |-> FALSE, seen |-> NoFile,
         all_records |-> <<>>, batch |-> 0,
         pre |-> NoRow, pre_tables |-> NoTables, pre_log |-> 0]

\* the call process_dbf_file(path) is entered by caller (sync.py 22-29)
Invoke(path, caller) ==
    [Idle EXCEPT !.pc = "lookup", !.op = "process_dbf_file", !.path = path,
                 !.caller = caller, !.pre = fileState[path], !.pre_tables = tables,
                 !.pre_log = Len(syncLog)]

\* an exception is raised at step `at`; the session keeps the attributes `dirty`
Raise(at, dirty) == [run EXCEPT !.pc = "except", !.raised_at = at, !.dirty = dirty]

\* a SQL statement raises
Fault == /\ env.steps > 0
         /\ env' = [env EXCEPT !.steps = @ - 1]

----------------------------------------------------------------------------
(* process_dbf_file (src/dbf/sync.py 22-133) *)

\* 29-44: get or create the file state record
Lookup ==
    /\ run.pc = "lookup"
    /\ UNCHANGED <<disk, syncLog, tables, processing, tasks, scan>>
    /\ \/ \* 32: the query raises; file_state is never bound
          /\ Fault
          /\ run' = [Raise("lookup", Clean0) EXCEPT !.bound = FALSE]
          /\ UNCHANGED fileState
       \/ \* 36: the row exists
          /\ fileState[run.path].present
          /\ run' = [run EXCEPT !.pc = "enter", !.bound = TRUE, !.persistent = TRUE]
          /\ UNCHANGED <<fileState, env>>
       \/ \* 37-44: the row is created as PENDING and committed
          /\ ~fileState[run.path].present
          /\ fileState' = [fileState EXCEPT ![run.path] = NewRow]
          /\ run' = [run EXCEPT !.pc = "enter", !.bound = TRUE, !.persistent = TRUE]
          /\ UNCHANGED env
       \/ \* 43: the commit raises; the pending object is expunged by the rollback
          /\ ~fileState[run.path].present
          /\ Fault
          /\ run' = [Raise("create", Clean0) EXCEPT !.bound = TRUE, !.persistent = FALSE]
          /\ UNCHANGED fileState
       \/ \* 44: the refresh raises after the commit
          /\ ~fileState[run.path].present
          /\ Fault
          /\ fileState' = [fileState EXCEPT ![run.path] = NewRow]
          /\ run' = [Raise("refresh", Clean0) EXCEPT !.bound = TRUE, !.persistent = TRUE]

\* 46-48: status PROCESSING is committed
Enter ==
    /\ run.pc = "enter"
    /\ UNCHANGED <<disk, syncLog, tables, processing, tasks, scan>>
    /\ \/ /\ fileState' = [fileState EXCEPT ![run.path] =
                              Flush(@, [Clean0 EXCEPT !.processing_status = "PROCESSING"])]
          /\ run' = [run EXCEPT !.pc = "detect", !.entered = TRUE]
          /\ UNCHANGED env
       \/ \* 48: the commit raises and rolls the session back
          /\ Fault
          /\ run' = Raise("enter", Clean0)
          /\ UNCHANGED fileState

\* a test that overlooks the deletes
changes_detected_ignoring_deletes(deltas) ==
    deltas.inserts # <<>> \/ deltas.updates # <<>>

\* 70: if deltas['inserts'] or deltas['updates'] or deltas['deletes']
changes_detected(deltas) ==
    deltas.inserts # <<>> \/ deltas.updates # <<>> \/ deltas.deletes # <<>>

\* 50-74 and 101-104: checksums, previous checksums, deltas
Detect ==
    /\ run.pc = "detect"
    /\ UNCHANGED <<disk, fileState, syncLog, tables, processing, tasks, scan>>
    /\ \/ LET current_checksums == compute_record_checksums(disk[run.path])
              previous == previous_checksums(fileState[run.path].checksum_map)
              deltas == compute_deltas(previous, current_checksums)
          IN /\ run' = IF changes_detected(deltas)
                       THEN [run EXCEPT !.pc = "apply",
                                        !.current_checksums = current_checksums,
                                        !.deltas = deltas, !.seen = disk[run.path],
                                        !.read_failed = ReadFails(disk[run.path])]
                       ELSE [run EXCEPT !.pc = "commit",
                                        !.current_checksums = current_checksums,
                                        !.deltas = deltas, !.seen = disk[run.path],
                                        !.read_failed = ReadFails(disk[run.path]),
                                        !.dirty.processing_status = "COMPLETED"]
             /\ UNCHANGED env
       \/ \* 56: loading the expired file_state raises
          /\ Fault
          /\ run' = Raise("detect", Clean0)

\* a rollback that keeps the rows written since the last commit
rollback_keeps_pending(committed, pending) == pending

\* 158-160: db.rollback() discards the rows written since the last commit
rollback(committed, pending) == committed

\* 76-79 and 135-162: _apply_changes
Apply ==
    /\ run.pc = "apply"
    /\ UNCHANGED <<disk, fileState, syncLog, processing, tasks, scan>>
    /\ \/ LET r == apply_changes(tables, get_table_name(FileName(run.path)),
                                 run.deltas, read_all_records(disk[run.path]))
          IN /\ tables' = r.tbls
             /\ run' = [run EXCEPT !.pc = "update", !.applied = TRUE,
                                   !.records_processed = r.records_processed,
                                   !.read_failed = @ \/ DecodeFails(disk[run.path])]
             /\ UNCHANGED env
       \/ \* 153 / 156: a query or the commit raises; 158-160 roll back and re-raise
          /\ Fault
          /\ run' = Raise("apply", Clean0)
          /\ \E n \in 0..Len(upsert_indices(run.deltas)) :
                LET indices == SubSeq(upsert_indices(run.deltas), 1, n)
                    pending == UpsertLoop([tbls |-> tables, records_processed |-> 0],
                                          get_table_name(FileName(run.path)), indices,
                                          read_all_records(disk[run.path]))
                IN tables' = rollback(tables, pending.tbls)

\* 81-99: the new snapshot is assigned to file_state
Update ==
    /\ run.pc = "update"
    /\ UNCHANGED <<disk, fileState, syncLog, tables, processing, tasks, scan, env>>
    /\ LET assigned == [run.dirty EXCEPT
                           !.has_map = TRUE,
                           !.checksum_map = json_dumps(run.current_checksums),
                           !.record_count = Cardinality(DOMAIN run.current_checksums)]
       IN IF ~disk[run.path].exists
          THEN \* 84: Path(file_path).stat() raises FileNotFoundError
               run' = Raise("stat", assigned)
          ELSE run' = [run EXCEPT !.pc = "commit",
                                  !.dirty = [assigned EXCEPT !.processing_status = "COMPLETED"]]

\* 106: the final commit
Commit ==
    /\ run.pc = "commit"
    /\ UNCHANGED <<disk, tables, processing, tasks, scan>>
    /\ \/ /\ fileState' = [fileState EXCEPT ![run.path] = Flush(@, run.dirty)]
          /\ syncLog' = IF run.dirty.has_map
                        THEN db_add(syncLog,
                                 SyncLogRow(run.path, "UPDATE",
                                            Cardinality(DOMAIN run.current_checksums),
                                            run.records_processed, TRUE))
                        ELSE syncLog
          /\ run' = [run EXCEPT !.pc = "done", !.result = "returned", !.dirty = Clean0]
          /\ UNCHANGED env
       \/ \* 106: the commit raises and rolls the session back
          /\ Fault
          /\ run' = Raise("commit", Clean0)
          /\ UNCHANGED <<fileState, syncLog>>

\* 109-133: the except block
Except ==
    /\ run.pc = "except"
    /\ run.op = "process_dbf_file"
    /\ UNCHANGED <<disk, tables, processing, tasks, scan>>
    /\ IF ~run.bound
       THEN \* 113: file_state is unbound, UnboundLocalError leaves the call
            /\ run' = [run EXCEPT !.pc = "done", !.result = "raised"]
            /\ UNCHANGED <<fileState, syncLog, env>>
       ELSE LET dirty == [run.dirty EXCEPT !.processing_status = "ERROR",
                                           !.error_message = TRUE]
            IN \/ /\ fileState' = IF run.persistent
                                  THEN [fileState EXCEPT ![run.path] = Flush(@, dirty)]
                                  ELSE fileState
                  /\ syncLog' = db_add(syncLog, SyncLogRow(run.path, "UPDATE", 0, 0, FALSE))
                  /\ run' = [run EXCEPT !.pc = "done", !.result = "returned",
                                        !.dirty = Clean0]
                  /\ UNCHANGED env
               \/ \* 130: the commit raises inside the except block
                  /\ Fault
                  /\ run' = [run EXCEPT !.pc = "done", !.result = "raised",
                                        !.dirty = Clean0]
                  /\ UNCHANGED <<fileState, syncLog>>

----------------------------------------------------------------------------
(* bulk_load_file (src/dbf/sync.py 283-361) *)

batch_size == 1000

\* 283-299: the call is entered and all records are read
InvokeBulk(path, caller) ==
    [Idle EXCEPT !.pc = "batch", !.op = "bulk_load_file", !.path = path,
                 !.caller = caller, !.pre = fileState[path], !.pre_tables = tables,
                 !.pre_log = Len(syncLog),
                 !.all_records = read_all_records(disk[path])]

\* 304-305: for record in batch: _upsert_record(db, table_name, record); the
\* records are folded in order, the first half of the batch before the second
\* (the tables after the first half are bound as a value, which keeps the
\* evaluation of a batch of 1000 records shallow)
RECURSIVE BatchLoop(_, _, _)
BatchLoop(tbls, table_name, batch) ==
    IF batch = <<>> THEN tbls
    ELSE IF Len(batch) = 1 THEN upsert_record(tbls, table_name, batch[1])
    ELSE LET half == Len(batch) \div 2
         IN CHOOSE after \in
                {BatchLoop(t, table_name, SubSeq(batch, half + 1, Len(batch))) :
                    t \in {BatchLoop(tbls, table_name, SubSeq(batch, 1, half))}} : TRUE

\* 301-309: one batch is upserted and committed
BulkBatch ==
    /\ run.pc = "batch"
    /\ UNCHANGED <<disk, fileState, syncLog, processing, tasks, scan>>
    /\ IF run.batch >= Len(run.all_records)
       THEN /\ run' = [run EXCEPT !.pc = "state"]
            /\ UNCHANGED <<tables, env>>
       ELSE LET last == IF run.batch + batch_size < Len(run.all_records)
                        THEN run.batch + batch_size ELSE Len(run.all_records)
                batch == SubSeq(run.all_records, run.batch + 1, last)
            IN \/ /\ tables' = BatchLoop(tables, get_table_name(FileName(run.path)), batch)
                  /\ run' = [run EXCEPT !.batch = run.batch + batch_size,
                                        !.records_processed = @ + Len(batch)]
                  /\ UNCHANGED env
               \/ \* 305 / 308: the first query or the commit raises; 340-341 roll
                  \* the rows of the batch back
                  /\ Fault
                  /\ run' = Raise("batch", Clean0)
                  /\ \E n \in {0, Len(batch)} :
                        LET pending == BatchLoop(tables, get_table_name(FileName(run.path)),
                                                 SubSeq(batch, 1, n))
                        IN tables' = rollback(tables, pending)

\* 311-338: the snapshot is merged and the BULK_LOAD log entry is added
BulkState ==
    /\ run.pc = "state"
    /\ UNCHANGED <<disk, tables, processing, tasks, scan>>
    /\ LET checksums == compute_record_checksums(disk[run.path]) IN
       IF ~disk[run.path].exists
       THEN \* 316: Path(file_path).stat() raises FileNotFoundError
            /\ run' = Raise("stat", Clean0)
            /\ UNCHANGED <<fileState, syncLog, env>>
       ELSE \/ /\ fileState' = [fileState EXCEPT ![run.path] =
                                   [present |-> TRUE, processing_status |-> "COMPLETED",
                                    checksum_map |-> json_dumps(checksums),
                                    record_count |-> Cardinality(DOMAIN checksums),
                                    error_message |-> @.error_message]]
               /\ syncLog' = db_add(syncLog,
                                 SyncLogRow(run.path, "BULK_LOAD", Len(run.all_records),
                                            run.records_processed, TRUE))
               /\ run' = [run EXCEPT !.pc = "done", !.result = "returned",
                                     !.current_checksums = checksums]
               /\ UNCHANGED env
            \/ \* 321 / 335: the merge or the commit raises
               /\ Fault
               /\ run' = Raise("state", Clean0)
               /\ UNCHANGED <<fileState, syncLog>>

\* 340-358: rollback, failure log entry, re-raise
BulkExcept ==
    /\ run.pc = "except"
    /\ run.op = "bulk_load_file"
    /\ UNCHANGED <<disk, fileState, tables, processing, tasks, scan>>
    /\ \/ /\ syncLog' = db_add(syncLog, SyncLogRow(run.path, "BULK_LOAD", 0, 0, FALSE))
          /\ run' = [run EXCEPT !.pc = "done", !.result = "raised"]
          /\ UNCHANGED env
       \/ \* 357: the commit raises inside the except block and its exception
          \* leaves the call instead
          /\ Fault
          /\ run' = [run EXCEPT !.pc = "done", !.result = "raised", !.raised_at = "log"]
          /\ UNCHANGED syncLog

----------------------------------------------------------------------------
(* Environment: the ERP writing the files, the operator, the process being *)
(* killed.                                                                 *)

RECURSIVE SeqsUpTo(_, _)
SeqsUpTo(S, n) ==
    IF n = 0 THEN {<<>>}
    ELSE LET shorter == SeqsUpTo(S, n - 1)
         IN shorter \cup {Append(q, x) : q \in {r \in shorter : Len(r) = n - 1}, x \in S}

\* the record arrays written by the ERP: one record per natural key
RecordArrays ==
    {q \in SeqsUpTo(Records, MaxRecs) :
        \A i, j \in 1..Len(q) : i # j => Strip(q[i].key) # Strip(q[j].key)}

\* what a write leaves on disk: no file, a truncated header, a table, a table
\* whose header already counts a record that is not fully written, a table
\* whose memo sidecar is missing
FileContents ==
    {NoFile, Truncated}
    \cup {Table(q) : q \in RecordArrays}
    \cup {[Table(q) EXCEPT !.num_records = Len(q) + 1] :
             q \in {r \in RecordArrays : Len(r) = 1}}
    \cup {[Table(q) EXCEPT !.memo_ok = FALSE] :
             q \in {r \in RecordArrays : Len(r) = 1 /\ r[1].val = <<"x">>}}

\* the ERP (or the operator) rewrites, truncates or removes a file.  A write
\* is taken when no call is running or right before a step that reads the disk
\* (a write before any other step commutes with that step).
DiskWrite(p, content) ==
    /\ env.steps > 0
    /\ p \in env.files
    /\ run.pc \in {"idle", "detect", "apply", "update", "state"}
    /\ content # disk[p]
    /\ disk' = [disk EXCEPT ![p] = content]
    /\ env' = [env EXCEPT !.steps = @ - 1]
    /\ UNCHANGED <<fileState, syncLog, tables, run, processing, tasks, scan>>

Direct == [kind |-> "direct", id |-> 0]

\* a caller other than the watcher awaits process_dbf_file(p)
Call(p) ==
    /\ run.pc = "idle"
    /\ p \in env.files
    /\ env.runs > 0
    /\ run' = Invoke(p, Direct)
    /\ env' = [env EXCEPT !.runs = @ - 1]
    /\ UNCHANGED <<disk, fileState, syncLog, tables, processing, tasks, scan>>

\* the operator awaits bulk_load_file(p)
CallBulk(p) ==
    /\ run.pc = "idle"
    /\ p \in env.files
    /\ env.runs > 0
    /\ run' = InvokeBulk(p, Direct)
    /\ env' = [env EXCEPT !.runs = @ - 1]
    /\ UNCHANGED <<disk, fileState, syncLog, tables, processing, tasks, scan>>

\* the call returns or raises to that caller
Return ==
    /\ run.pc = "done"
    /\ run.caller = Direct
    /\ run' = Idle
    /\ UNCHANGED <<disk, fileState, syncLog, tables, processing, tasks, scan, env>>

NoTasks == <<>>
ScanOff == [state |-> "off", files |-> <<>>]

\* the process is killed: sessions, tasks and the in-flight set are lost
Crash ==
    /\ env.steps > 0
    /\ run.pc \notin {"idle", "done"}
    /\ env' = [env EXCEPT !.steps = @ - 1]
    /\ run' = Idle
    /\ processing' = {}
    /\ tasks' = NoTasks
    /\ scan' = ScanOff
    /\ UNCHANGED <<disk, fileState, syncLog, tables>>

----------------------------------------------------------------------------
(* Sync engine driven by direct calls *)

Init ==
    /\ disk = [p \in Paths |-> NoFile]
    /\ fileState = [p \in Paths |-> NoRow]
    /\ syncLog = <<>>
    /\ tables = NoTables
    /\ run = Idle
    /\ processing = {}
    /\ tasks = NoTasks
    /\ scan = ScanOff
    /\ \E p \in Paths :
          env = [files |-> {p}, steps |-> MaxEnv, runs |-> MaxRuns, events |-> {}]

Next ==
    \/ \E p \in Paths, content \in FileContents : DiskWrite(p, content)
    \/ \E p \in Paths : Call(p)
    \/ \E p \in Paths : CallBulk(p)
    \/ Lookup
    \/ Enter
    \/ Detect
    \/ Apply
    \/ Update
    \/ Commit
    \/ Except
    \/ BulkBatch
    \/ BulkState
    \/ BulkExcept
    \/ Return
    \/ Crash

Spec == Init /\ [][Next]_vars

----------------------------------------------------------------------------
(* Watcher (src/dbf/watcher.py) *)

ScanCaller == [kind |-> "scan", id |-> 0]
TaskCaller == [kind |-> "task", id |-> 0]

\* the event loop can run an event task: the initial scan, created first and
\* never suspended, is over and no sync call is executing
LoopFree == run.pc = "idle" /\ scan.state = "finished"

\* Path.suffix of the file name
Suffix(p) == SubSeq(FileName(p), Len(FileName(p)) - 3, Len(FileName(p)))

\* the orders in which a glob can list the files of S
RECURSIVE Orders(_)
Orders(S) ==
    IF S = {} THEN {<<>>}
    ELSE UNION {{<<x>> \o q : q \in Orders(S \ {x})} : x \in S}

\* 81-104: DBFWatcherService.start
Start ==
    /\ scan.state = "off"
    /\ run.pc = "idle"
    /\ scan' = [state |-> "created", files |-> <<>>]
    /\ UNCHANGED <<disk, fileState, syncLog, tables, run, processing, tasks, env>>

\* 114-127: _initial_scan lists the target files
ScanBegin ==
    /\ scan.state = "created"
    /\ run.pc = "idle"
    /\ \E upper \in Orders({p \in Paths : disk[p].exists /\ Suffix(p) = <<".","D","B","F">>}),
          lower \in Orders({p \in Paths : disk[p].exists /\ Suffix(p) = <<".","d","b","f">>}) :
          LET all_dbf_files == upper \o lower
              dbf_files == SelectSeq(all_dbf_files,
                                     LAMBDA f : LowerStr(FileName(f)) \in TargetFiles)
          IN scan' = [state |-> IF dbf_files = <<>> THEN "finished" ELSE "loop",
                      files |-> dbf_files]
    /\ UNCHANGED <<disk, fileState, syncLog, tables, run, processing, tasks, env>>

\* 130-133: the scan awaits process_dbf_file for the next file
ScanCall ==
    /\ scan.state = "loop"
    /\ run.pc = "idle"
    /\ run' = Invoke(Head(scan.files), ScanCaller)
    /\ scan' = [scan EXCEPT !.state = "calling"]
    /\ UNCHANGED <<disk, fileState, syncLog, tables, processing, tasks, env>>

\* 134-135: the call returns or raises; the loop goes on
ScanReturn ==
    /\ scan.state = "calling"
    /\ run.pc = "done"
    /\ run.caller = ScanCaller
    /\ run' = Idle
    /\ scan' = [state |-> IF Tail(scan.files) = <<>> THEN "finished" ELSE "loop",
                files |-> Tail(scan.files)]
    /\ UNCHANGED <<disk, fileState, syncLog, tables, processing, tasks, env>>

\* 21-45: on_modified for a file event on path p
on_modified(p) ==
    /\ scan.state # "off"
    /\ p \in env.events
    /\ Len(tasks) < MaxTasks
    /\ Suffix(p) \in {<<".","D","B","F">>, <<".","d","b","f">>}
    /\ \/ \* 45: a task is created (the handler runs in the thread of the loop)
          /\ should_process_file(p)
          /\ p \notin processing
          /\ tasks' = Append(tasks, [state |-> "created", path |-> p])
       \/ \* 35 / 40: the event is skipped; 45: asyncio.create_task raises
          \* RuntimeError when the handler runs in a thread without a running loop
          UNCHANGED tasks
    /\ UNCHANGED <<disk, fileState, syncLog, tables, run, processing, scan, env>>

\* the oldest task that has not run yet
FirstCreated == Min({t \in 1..Len(tasks) : tasks[t].state = "created"})

\* 56-62: _process_file up to the debounce sleep
TaskStart ==
    /\ \E t \in 1..Len(tasks) : tasks[t].state = "created"
    /\ LoopFree
    /\ processing' = processing \cup {tasks[FirstCreated].path}
    /\ tasks' = [tasks EXCEPT ![FirstCreated].state = "sleeping"]
    /\ UNCHANGED <<disk, fileState, syncLog, tables, run, scan, env>>

\* 64-65: the sleep is over, process_dbf_file is awaited
TaskWake ==
    /\ tasks # <<>>
    /\ Head(tasks).state = "sleeping"
    /\ LoopFree
    /\ run' = Invoke(Head(tasks).path, TaskCaller)
    /\ tasks' = [tasks EXCEPT ![1].state = "calling"]
    /\ UNCHANGED <<disk, fileState, syncLog, tables, processing, scan, env>>

\* a task that ends without the discard of line 70
TaskReturn_keeps_path ==
    /\ tasks # <<>>
    /\ Head(tasks).state = "calling"
    /\ run.pc = "done"
    /\ run.caller = TaskCaller
    /\ run' = Idle
    /\ tasks' = Tail(tasks)
    /\ UNCHANGED <<disk, fileState, syncLog, tables, processing, scan, env>>

\* 67-70: the call returns or raises; the path leaves the in-flight set
TaskReturn ==
    /\ tasks # <<>>
    /\ Head(tasks).state = "calling"
    /\ run.pc = "done"
    /\ run.caller = TaskCaller
    /\ run' = Idle
    /\ processing' = processing \ {Head(tasks).path}
    /\ tasks' = Tail(tasks)
    /\ UNCHANGED <<disk, fileState, syncLog, tables, scan, env>>

----------------------------------------------------------------------------
(* Watcher service: observer, initial scan and event tasks *)

\* the writes of the ERP while the watcher runs: removal, truncation, an
\* in-place update
WatchContents ==
    {NoFile, Truncated, Table(<<[key |-> <<"A">>, val |-> <<"y">>]>>)}

WatchInit ==
    /\ disk \in {[p \in Paths |-> IF p \in present THEN Table(<<r>>) ELSE NoFile] :
                    present \in {{"clientes.dbf", "ARTS.DBF", "otros.dbf"},
                                 {"clientes.dbf", "movim.dbf"}},
                    r \in {[key |-> <<"A">>, val |-> <<"x">>]}}
    /\ fileState = [p \in Paths |-> NoRow]
    /\ syncLog = <<>>
    /\ tables = NoTables
    /\ run = Idle
    /\ processing = {}
    /\ tasks = NoTasks
    /\ scan = ScanOff
    /\ env = [files |-> {"clientes.dbf"}, steps |-> MaxWatchEnv, runs |-> 0,
              events |-> {"clientes.dbf", "otros.dbf"}]

WatchNext ==
    \/ Start
    \/ ScanBegin
    \/ ScanCall
    \/ ScanReturn
    \/ \E p \in Paths : on_modified(p)
    \/ TaskStart
    \/ TaskWake
    \/ TaskReturn
    \/ Lookup
    \/ Enter
    \/ Detect
    \/ Apply
    \/ Update
    \/ Commit
    \/ Except
    \/ \E p \in Paths, content \in WatchContents : DiskWrite(p, content)
    \/ Crash

WatchSpec == WatchInit /\ [][WatchNext]_vars

\* a step of the event loop: the scan, a task, or the call one of them awaits
LoopStep ==
    \/ ScanBegin \/ ScanCall \/ ScanReturn
    \/ TaskStart \/ TaskWake \/ TaskReturn
    \/ Lookup \/ Enter \/ Detect \/ Apply \/ Update \/ Commit \/ Except

\* the event loop does not stop while a task is ready to run
WatchFair == WatchSpec /\ WF_vars(LoopStep)

----------------------------------------------------------------------------
(* Delta detector called on its own (src/dbf/delta.py) *)

MaxIndex == 2      \* record indices 0..MaxIndex in a checksum map

\* two checksum values
Checksums == {<<0, 1>>, <<0, 2>>}

\* the integer-keyed checksum maps
ChecksumMaps == UNION {[S -> Checksums] : S \in SUBSET (0..MaxIndex)}

\* the checksum maps of the tables that hold some of the records A, B, C, D,
\* each at most once, in any order
ScenarioMaps ==
    {compute_record_checksums(Table(q)) :
        q \in {r \in SeqsUpTo(ScenarioRecords, Cardinality(ScenarioRecords)) :
                  \A i, j \in 1..Len(r) : i # j => r[i] # r[j]}}

\* a caller holds two checksum maps
DeltaInit ==
    /\ disk = [p \in Paths |-> NoFile]
    /\ fileState = [p \in Paths |-> NoRow]
    /\ syncLog = <<>>
    /\ tables = NoTables
    /\ processing = {}
    /\ tasks = NoTasks
    /\ scan = ScanOff
    /\ env = [files |-> {}, steps |-> 0, runs |-> 0, events |-> {}]
    /\ \E old \in ChecksumMaps \cup ScenarioMaps, new \in ChecksumMaps \cup ScenarioMaps :
          run = [pc |-> "call", op |-> "compute_deltas",
                 old_checksums |-> old, new_checksums |-> new,
                 deltas |-> NoDeltas, has_changes |-> FALSE]

\* delta.py 6-38 and 49-51: compute_deltas(old, new), then has_changes(deltas)
ComputeDeltas ==
    /\ run.pc = "call"
    /\ run.op = "compute_deltas"
    /\ LET deltas == compute_deltas(run.old_checksums, run.new_checksums)
       IN run' = [run EXCEPT !.pc = "done", !.deltas = deltas,
                             !.has_changes = has_changes(deltas)]
    /\ UNCHANGED <<disk, fileState, syncLog, tables, processing, tasks, scan, env>>

DeltaNext == ComputeDeltas

DeltaSpec == DeltaInit /\ [][DeltaNext]_vars

----------------------------------------------------------------------------
(* _upsert_record called on its own (src/dbf/sync.py 164-262) *)

MaxRows == 3       \* rows of a domain table

\* records as read_all_records returns them: character fields keep their
\* leading blanks, an empty key field is the empty string
UpsertRecords ==
    {[key |-> k, val |-> v] : k \in {<<"A">>, <<" ", "A">>, <<"B">>, <<>>},
                              v \in {<<"x">>, <<"y">>, <<" ", "x">>}}

TableNames == {"customers", "products", "movements"}

\* the rows of the table named table_name
RowsOf(tbls, table_name) ==
    CASE table_name = "customers" -> tbls.customers
      [] table_name = "products" -> tbls.products
      [] table_name = "movements" -> tbls.movements

\* a caller upserts records into one table of an empty database
UpsertInit ==
    /\ disk = [p \in Paths |-> NoFile]
    /\ fileState = [p \in Paths |-> NoRow]
    /\ syncLog = <<>>
    /\ tables = NoTables
    /\ processing = {}
    /\ tasks = NoTasks
    /\ scan = ScanOff
    /\ env = [files |-> {}, steps |-> 0, runs |-> 0, events |-> {}]
    /\ \E table_name \in TableNames :
          run = [pc |-> "idle", op |-> "_upsert_record", table_name |-> table_name,
                 record_data |-> [key |-> <<>>, val |-> <<>>]]

\* 164-176: await self._upsert_record(db, table_name, record_data), committed
UpsertCall(record_data) ==
    /\ run.op = "_upsert_record"
    /\ Len(RowsOf(tables, run.table_name)) < MaxRows
    /\ tables' = upsert_record(tables, run.table_name, record_data)
    /\ run' = [run EXCEPT !.pc = "done", !.record_data = record_data]
    /\ UNCHANGED <<disk, fileState, syncLog, processing, tasks, scan, env>>

UpsertNext == \E record_data \in UpsertRecords : UpsertCall(record_data)

UpsertSpec == UpsertInit /\ [][UpsertNext]_vars

----------------------------------------------------------------------------
(* Sync engine called again and again on a file that is not rewritten *)

\* the contents of the file
StableContents == FileContents \cup {Table(<<r>>) : r \in PaddedRecords}

StableInit ==
    /\ fileState = [p \in Paths |-> NoRow]
    /\ syncLog = <<>>
    /\ tables = NoTables
    /\ run = Idle
    /\ processing = {}
    /\ tasks = NoTasks
    /\ scan = ScanOff
    /\ \E p \in Paths, content \in StableContents :
          /\ disk = [q \in Paths |-> IF q = p THEN content ELSE NoFile]
          /\ env = [files |-> {p}, steps |-> MaxEnv, runs |-> MaxRuns, events |-> {}]

StableNext ==
    \/ \E p \in Paths : Call(p)
    \/ Lookup
    \/ Enter
    \/ Detect
    \/ Apply
    \/ Update
    \/ Commit
    \/ Except
    \/ Return
    \/ Crash

StableSpec == StableInit /\ [][StableNext]_vars

----------------------------------------------------------------------------
(* process_dbf_file on one file that the ERP rewrites between the calls,   *)
(* never during one.                                                       *)

\* the ERP rewrites the file while no call is running
EditWrite(p, content) ==
    /\ run.pc = "idle"
    /\ DiskWrite(p, content)

\* tables in which the ERP has marked one record as deleted
FlaggedContents ==
    UNION {{[Table(q) EXCEPT !.deleted = {i}] : i \in 1..Len(q)} : q \in RecordArrays}

EditContents == StableContents \cup FlaggedContents

\* an empty database and one target file on disk
EditInit ==
    /\ StableInit
    /\ \A p \in env.files : should_process_file(p)

EditNext ==
    \/ \E p \in Paths, content \in EditContents : EditWrite(p, content)
    \/ \E p \in Paths : Call(p)
    \/ Lookup
    \/ Enter
    \/ Detect
    \/ Apply
    \/ Update
    \/ Commit
    \/ Except
    \/ Return
    \/ Crash

EditSpec == EditInit /\ [][EditNext]_vars

----------------------------------------------------------------------------

(* bulk_load_file on one file, small or of more than one batch *)

\* a movements table of n records
LargeTable(n) == Table([i \in 1..n |-> [key |-> <<"A">>, val |-> <<"x">>]])

\* the files the operator loads: the small ones and, for the movements file,
\* tables of one full batch, of one batch and a record, of two and a record
BulkContents(p) ==
    {Table(q) : q \in RecordArrays}
    \cup IF get_table_name(FileName(p)) = "movements"
         THEN {LargeTable(batch_size), LargeTable(batch_size + 1),
               LargeTable(2 * batch_size + 1)}
         ELSE {}

BulkInit ==
    /\ fileState = [p \in Paths |-> NoRow]
    /\ syncLog = <<>>
    /\ tables = NoTables
    /\ run = Idle
    /\ processing = {}
    /\ tasks = NoTasks
    /\ scan = ScanOff
    /\ \E p \in Paths : \E content \in BulkContents(p) :
          /\ disk = [q \in Paths |-> IF q = p THEN content ELSE NoFile]
          /\ env = [files |-> {p}, steps |-> MaxEnv, runs |-> MaxRuns, events |-> {}]

BulkNext ==
    \/ \E p \in Paths : CallBulk(p)
    \/ BulkBatch
    \/ BulkState
    \/ BulkExcept
    \/ Return
    \/ Crash

BulkSpec == BulkInit /\ [][BulkNext]_vars

----------------------------------------------------------------------------

(* compute_record_checksums on the bytes of a file (src/dbf/reader.py       *)
(* 72-98).  A raw file is                                                  *)
(*   header_ok      the header holds the 12 bytes the reader unpacks,      *)
(*   num_records    bytes 4-7 of the header,                               *)
(*   record_length  bytes 10-11 of the header,                             *)
(*   data           the bytes from offset header_length to the end.        *)

MaxCount == 3          \* num_records of a raw file
MaxRecordLength == 2   \* record_length of a raw file
MaxBytes == 4          \* bytes behind the header of a raw file

\* the byte values of a raw file: a blank and the letter A
ByteValues == {32, 65}

RawFiles ==
    [header_ok : BOOLEAN, num_records : 0..MaxCount, record_length : 0..MaxRecordLength,
     data : SeqsUpTo(ByteValues, MaxBytes)]

\* a test that takes a short slice at the end of the file for a record
slice_not_empty(record_data, record_length) == Len(record_data) > 0

\* 89: if len(record_data) == record_length
slice_is_full(record_data, record_length) == Len(record_data) = record_length

\* 87-91: for i in range(num_records), reading on from position pos
RECURSIVE read_slices(_, _, _, _)
read_slices(raw, i, pos, checksums) ==
    IF i >= raw.num_records THEN checksums
    ELSE LET last == Min({pos + raw.record_length, Len(raw.data)})
             record_data == SubSeq(raw.data, pos + 1, last)
         IN read_slices(raw, i + 1, last,
                        IF slice_is_full(record_data, raw.record_length)
                        THEN [k \in DOMAIN checksums \cup {i} |->
                                 IF k = i THEN crc32(record_data) ELSE checksums[k]]
                        ELSE checksums)

\* 72-98: the checksums of a raw file; {} if the header cannot be unpacked
record_checksums(raw) ==
    IF ~raw.header_ok THEN EmptyMap ELSE read_slices(raw, 0, 0, EmptyMap)

ReaderInit ==
    /\ disk = [p \in Paths |-> NoFile]
    /\ fileState = [p \in Paths |-> NoRow]
    /\ syncLog = <<>>
    /\ tables = NoTables
    /\ processing = {}
    /\ tasks = NoTasks
    /\ scan = ScanOff
    /\ env = [files |-> {}, steps |-> 0, runs |-> 0, events |-> {}]
    /\ \E raw \in RawFiles :
          run = [pc |-> "call", op |-> "compute_record_checksums", raw |-> raw,
                 checksums |-> EmptyMap]

\* reader.compute_record_checksums() returns
ComputeChecksums ==
    /\ run.pc = "call"
    /\ run.op = "compute_record_checksums"
    /\ run' = [run EXCEPT !.pc = "done", !.checksums = record_checksums(run.raw)]
    /\ UNCHANGED <<disk, fileState, syncLog, tables, processing, tasks, scan, env>>

ReaderNext == ComputeChecksums

ReaderSpec == ReaderInit /\ [][ReaderNext]_vars

----------------------------------------------------------------------------

(* process_dbf_file on a file that holds records without natural key *)

\* record arrays with at least one record whose key field is blank
KeylessArrays ==
    {q \in SeqsUpTo(Records \cup KeylessRecords, MaxRecs) :
        /\ \E i \in 1..Len(q) : q[i] \in KeylessRecords
        /\ \A i, j \in 1..Len(q) :
              (i # j /\ q[i] \in Records /\ q[j] \in Records) => q[i].key # q[j].key}

KeylessInit ==
    /\ fileState = [p \in Paths |-> NoRow]
    /\ syncLog = <<>>
    /\ tables = NoTables
    /\ run = Idle
    /\ processing = {}
    /\ tasks = NoTasks
    /\ scan = ScanOff
    /\ \E p \in Paths, q \in KeylessArrays :
          /\ disk = [r \in Paths |-> IF r = p THEN Table(q) ELSE NoFile]
          /\ env = [files |-> {p}, steps |-> MaxEnv, runs |-> MaxRuns, events |-> {}]

KeylessNext ==
    \/ \E p \in Paths : Call(p)
    \/ Lookup
    \/ Enter
    \/ Detect
    \/ Apply
    \/ Update
    \/ Commit
    \/ Except
    \/ Return
    \/ Crash

KeylessSpec == KeylessInit /\ [][KeylessNext]_vars

----------------------------------------------------------------------------

(* Properties of process_dbf_file, read at the end of a call *)

\* a process_dbf_file call has just ended (returned or raised)
RunEnded == run.pc = "done" /\ run.op = "process_dbf_file"

\* ... without an exception: its final commit set COMPLETED
RunCompleted == RunEnded /\ run.raised_at = ""

\* ... after an exception
RunFailed == RunEnded /\ run.raised_at # ""

\* the committed file-state row of the file of the call
Row == fileState[run.path]

\* the call appended exactly one sync-log entry, with success = FALSE
LoggedFailure ==
    /\ Len(syncLog) = run.pre_log + 1
    /\ ~syncLog[Len(syncLog)].success

\* C1: after a sync that ends with status ERROR the committed checksum_map of
\* the file is the one it had before the sync started.
C1_ErrorKeepsSnapshot ==
    (RunEnded /\ run.entered /\ Row.processing_status = "ERROR")
        => Row.checksum_map = run.pre.checksum_map

\* C2: after a sync that ends COMPLETED the stored checksum_map (as the engine
\* reads it back) is the map compute_record_checksums returned in that sync,
\* which is the map of the file on disk unless the file was rewritten since,
\* and record_count is its number of entries, with or without changes.
C2_CompletedSnapshotMatches ==
    RunCompleted =>
        /\ Row.processing_status = "COMPLETED"
        /\ previous_checksums(Row.checksum_map) = run.current_checksums
        /\ Row.record_count = Cardinality(DOMAIN previous_checksums(Row.checksum_map))
        /\ disk[run.path] = run.seen =>
              previous_checksums(Row.checksum_map) = compute_record_checksums(disk[run.path])

\* C2 witness: a sync of an unchanged file with a non-empty snapshot completed
C2_Witness ==
    /\ RunCompleted
    /\ ~run.applied
    /\ run.current_checksums # EmptyMap

\* C3: the committed checksum_map of a file changes only in a commit that
\* leaves processing_status = COMPLETED.
C3_MapChangesOnlyWithCompleted ==
    [][\A p \in Paths :
          fileState'[p].checksum_map # fileState[p].checksum_map
              => fileState'[p].processing_status = "COMPLETED"]_vars

\* C4: a sync during which the reader could not read the file ends with status
\* ERROR and one sync-log entry with success = FALSE.
C4_ReadErrorEndsInError ==
    (RunEnded /\ run.read_failed)
        => (Row.processing_status = "ERROR" /\ LoggedFailure)

\* the status edges of the state machine of a file
SpecEdges ==
    { <<"ABSENT", "PENDING">>, <<"PENDING", "PROCESSING">>,
      <<"COMPLETED", "PROCESSING">>, <<"ERROR", "PROCESSING">>,
      <<"PROCESSING", "COMPLETED">>, <<"PROCESSING", "ERROR">> }

\* the edges the code adds: a failure before PROCESSING is committed (lines
\* 44 and 48), and the merge of bulk_load_file
CodeEdges ==
    SpecEdges \cup { <<"PENDING", "ERROR">>, <<"COMPLETED", "ERROR">>,
                     <<"ABSENT", "COMPLETED">>, <<"PENDING", "COMPLETED">>,
                     <<"ERROR", "COMPLETED">> }

\* every change of a committed status is an edge of `edges`, and a sync commits
\* PROCESSING only on a row whose status is in `from`
StatusStep(edges, from) ==
    /\ \A p \in Paths :
          fileState'[p].processing_status # fileState[p].processing_status
              => <<fileState[p].processing_status, fileState'[p].processing_status>> \in edges
    /\ (run.pc = "enter" /\ run'.pc = "detect")
          => fileState[run.path].processing_status \in from

\* C7: the committed status changes only along absent -> PENDING,
\* PENDING/COMPLETED/ERROR -> PROCESSING, PROCESSING -> COMPLETED and
\* PROCESSING -> ERROR; in particular a sync never enters on a PROCESSING row.
C7_OnlySpecEdges ==
    [][StatusStep(SpecEdges, {"PENDING", "COMPLETED", "ERROR"})]_vars

\* C7 as amended: the edges above, plus PENDING -> ERROR and COMPLETED -> ERROR
\* and the edges absent/PENDING/ERROR -> COMPLETED of bulk_load_file; a sync also
\* enters on a row left PROCESSING by a killed call.
C7_OnlyCodeEdges ==
    [][StatusStep(CodeEdges, {"PENDING", "COMPLETED", "ERROR", "PROCESSING"})]_vars

\* C7 witness: a sync entered on a row left PROCESSING by a killed call and ended
C7_Witness ==
    /\ RunEnded
    /\ run.pre.processing_status = "PROCESSING"
    /\ run.entered
    /\ Row.processing_status \in {"COMPLETED", "ERROR"}

\* C8: a call that committed PROCESSING ends with COMPLETED or ERROR committed,
\* and a call that returns never leaves PROCESSING or PENDING.
C8_EndsCompletedOrError ==
    /\ (RunEnded /\ run.entered) => Row.processing_status \in {"COMPLETED", "ERROR"}
    /\ (RunEnded /\ run.result = "returned")
          => Row.processing_status \notin {"PROCESSING", "PENDING"}

\* C9: process_dbf_file never raises to its caller; an exception inside it is
\* recorded as status ERROR and a sync-log entry with success = FALSE.
C9_NeverRaises ==
    RunEnded =>
        /\ run.result = "returned"
        /\ run.raised_at # "" => (Row.processing_status = "ERROR" /\ LoggedFailure)

\* C10: a sync that ends in ERROR leaves the domain tables as they were before
\* the sync started.
C10_ErrorLeavesTables ==
    (RunFailed /\ Row.processing_status = "ERROR") => tables = run.pre_tables

\* C10 as amended: a sync whose exception is raised before _apply_changes has
\* committed (line 156) leaves the domain tables as they were before the sync.
C10_ErrorBeforeApplyCommitLeavesTables ==
    (RunFailed /\ ~run.applied) => tables = run.pre_tables

\* C10 witness: _apply_changes raised in a sync that had rows to insert, and the
\* sync ended in ERROR
C10_Witness ==
    /\ RunFailed
    /\ run.raised_at = "apply"
    /\ run.deltas.inserts # <<>>
    /\ read_all_records(disk[run.path]) # <<>>
    /\ Row.processing_status = "ERROR"

(* Properties of the watcher *)

\* the syncs of path p in flight: the event tasks scheduled and not finished,
\* and the call of the initial scan
InFlight(p) ==
    Cardinality({t \in 1..Len(tasks) : tasks[t].path = p})
        + (IF scan.state = "calling" /\ run.path = p THEN 1 ELSE 0)

\* C5: at most one sync of a path is in flight at any moment.
C5_OneSyncPerFile == \A p \in Paths : InFlight(p) <= 1

\* C6: modify events delivered back-to-back for one path (all of them before
\* the event loop runs a task) leave at most two sync passes to run; every task
\* calls process_dbf_file once.
C6_AtMostTwoPasses ==
    \A p \in Paths :
        Cardinality({t \in 1..Len(tasks) :
                        tasks[t].path = p /\ tasks[t].state = "created"}) <= 2

(* Properties of the delta detector *)

\* compute_deltas has returned
DeltasComputed == run.pc = "done" /\ run.op = "compute_deltas"

\* the set of the elements of a list
Elems(q) == {q[i] : i \in 1..Len(q)}

\* a list in strictly ascending order (hence without duplicates)
Ascending(q) == \A i, j \in 1..Len(q) : i < j => q[i] < q[j]

\* C19: compute_deltas(old, new) returns inserts = keys(new) - keys(old),
\* deletes = keys(old) - keys(new), updates = the common keys whose checksums
\* differ, each as a duplicate-free list in ascending index order.
C19_DeltasAreSetDifferences ==
    DeltasComputed =>
        LET old == run.old_checksums
            new == run.new_checksums
        IN /\ Elems(run.deltas.inserts) = DOMAIN new \ DOMAIN old
           /\ Elems(run.deltas.deletes) = DOMAIN old \ DOMAIN new
           /\ Elems(run.deltas.updates) =
                 {k \in DOMAIN old \cap DOMAIN new : old[k] # new[k]}
           /\ Ascending(run.deltas.inserts)
           /\ Ascending(run.deltas.deletes)
           /\ Ascending(run.deltas.updates)

\* C19 witness: a call that returned two inserts and an update
C19_Witness ==
    /\ DeltasComputed
    /\ Len(run.deltas.inserts) >= 2
    /\ run.deltas.updates # <<>>

\* C20: the inserts, updates and deletes of compute_deltas(A, B) are pairwise
\* disjoint, every key of A or B is in exactly one of inserts, deletes, updates
\* or unchanged, and compute_deltas(A, A) is empty with has_changes false.
C20_DeltasPartitionKeys ==
    DeltasComputed =>
        LET A == run.old_checksums
            B == run.new_checksums
            ins == Elems(run.deltas.inserts)
            upd == Elems(run.deltas.updates)
            del == Elems(run.deltas.deletes)
            unchanged == {k \in DOMAIN A \cap DOMAIN B : A[k] = B[k]}
        IN /\ ins \cap upd = {} /\ ins \cap del = {} /\ upd \cap del = {}
           /\ \A k \in DOMAIN A \cup DOMAIN B :
                 Cardinality({S \in {<<1, ins>>, <<2, upd>>, <<3, del>>, <<4, unchanged>>} :
                                 k \in S[2]}) = 1
           /\ A = B => (run.deltas = NoDeltas /\ ~run.has_changes)

\* C20 witness: compute_deltas(A, A) has returned for a non-empty map A
C20_Witness ==
    /\ DeltasComputed
    /\ run.old_checksums = run.new_checksums
    /\ DOMAIN run.old_checksums = 0..MaxIndex

(* Properties of the upserts *)

\* the rows of a table whose trimmed natural key is that of record_data
SameKey(rows, record_data) ==
    {i \in 1..Len(rows) : Strip(rows[i].key) = Strip(record_data.key)}

\* C13: in customers and products there is at most one row per trimmed
\* natural key, and after _upsert_record of a record with a key the table has
\* exactly one row of that key, holding the values of the record, and
\* applying the same record again changes nothing.
C13_UpsertIdempotentKeyUnique ==
    (run.op = "_upsert_record" /\ run.table_name \in {"customers", "products"})
        => LET rows == RowsOf(tables, run.table_name) IN
           /\ \A i, j \in 1..Len(rows) :
                 i # j => Strip(rows[i].key) # Strip(rows[j].key)
           /\ (run.pc = "done" /\ Strip(run.record_data.key) # <<>>)
                 => /\ Cardinality(SameKey(rows, run.record_data)) = 1
                    /\ \A i \in SameKey(rows, run.record_data) :
                          Strip(rows[i].val) = Strip(run.record_data.val)
                    /\ upsert_record(tables, run.table_name, run.record_data) = tables

(* Properties of repeated syncs of a file that is not rewritten *)

\* the domain tables after one uninterrupted sync of the file of the call into
\* an empty database
Uninterrupted ==
    apply_changes(NoTables, get_table_name(FileName(run.path)),
                  compute_deltas(EmptyMap, compute_record_checksums(disk[run.path])),
                  read_all_records(disk[run.path])).tbls

\* C11: a sync of an unchanged customers or products file that follows a call
\* killed after _apply_changes committed its rows and before the new
\* checksum_map was committed re-emits the same inserts, leaves the tables as
\* one uninterrupted sync does (no duplicate rows) and stores the checksums of
\* the file.
C11_RerunAfterCrashConverges ==
    (/\ RunCompleted
     /\ run.pre.processing_status = "PROCESSING"
     /\ run.pre_tables # NoTables
     /\ get_table_name(FileName(run.path)) \in {"customers", "products"})
        => /\ run.deltas = compute_deltas(EmptyMap, compute_record_checksums(disk[run.path]))
           /\ tables = Uninterrupted
           /\ previous_checksums(Row.checksum_map) = compute_record_checksums(disk[run.path])

\* C12: a sync of a file that the previous call completed on and that was not
\* rewritten since detects no changes, appends no sync-log entry and leaves
\* the domain tables and the checksum_map as they are; every completed sync
\* appends one UPDATE entry if it detected changes and none otherwise.
C12_SecondRunChangesNothing ==
    /\ (RunCompleted /\ run.pre.processing_status = "COMPLETED")
          => /\ run.deltas = NoDeltas
             /\ Len(syncLog) = run.pre_log
             /\ tables = run.pre_tables
             /\ Row.checksum_map = run.pre.checksum_map
             /\ Row.record_count = run.pre.record_count
    /\ RunCompleted
          => Len(syncLog) = run.pre_log + (IF run.deltas = NoDeltas THEN 0 ELSE 1)

\* C12 witness: a second sync of a file with records completed
C12_Witness ==
    /\ RunCompleted
    /\ run.pre.processing_status = "COMPLETED"
    /\ run.current_checksums # EmptyMap
    /\ tables # NoTables

(* Properties of _apply_changes and of the table name *)

\* C14: no step removes a row of customers, products or movements, also in
\* syncs whose deltas contain deletes.
C14_TablesNeverShrink ==
    [][/\ Len(tables'.customers) >= Len(tables.customers)
       /\ Len(tables'.products) >= Len(tables.products)
       /\ Len(tables'.movements) >= Len(tables.movements)]_vars

\* C14 witness: a sync whose deltas contain a delete was applied on a
\* database with rows
C14_Witness ==
    /\ RunCompleted
    /\ run.applied
    /\ run.deltas.deletes # <<>>
    /\ tables # NoTables

\* C16: a file whose name classifies as unknown has no file-state row and no
\* sync-log entry.
C16_UnknownTableIgnored ==
    \A p \in Paths :
        get_table_name(FileName(p)) = "unknown"
            => /\ ~fileState[p].present
               /\ \A i \in 1..Len(syncLog) : syncLog[i].file_path # p

\* C18: within one sync every delete is handled before any upsert, and the
\* upserts visit the indices of inserts and updates in ascending order over
\* the whole union.
C18_DeletesThenAscendingUpserts ==
    (run.op = "process_dbf_file" /\ run.applied)
        => LET v == visits(run.deltas) IN
           \A i, j \in 1..Len(v) :
               i < j => /\ ~(v[i].op = "upsert" /\ v[j].op = "delete")
                        /\ (v[i].op = "upsert" /\ v[j].op = "upsert")
                              => v[i].record_index < v[j].record_index

(* Properties of the file filter and of the in-flight set *)

\* C15: a file whose lower-cased name is not a target file is never handed to
\* process_dbf_file by an event or by the initial scan: it has no task, no
\* call, no file-state row and no sync-log entry.
C15_OnlyTargetFilesSynced ==
    \A p \in Paths :
        LowerStr(FileName(p)) \notin TargetFiles
            => /\ \A t \in 1..Len(tasks) : tasks[t].path # p
               /\ run.path # p
               /\ ~fileState[p].present
               /\ \A i \in 1..Len(syncLog) : syncLog[i].file_path # p

\* C15 witness: the initial scan is over in a tree that holds otros.dbf, and a
\* task for the target file is scheduled
C15_Witness ==
    /\ scan.state = "finished"
    /\ disk["otros.dbf"].exists
    /\ fileState["clientes.dbf"].present
    /\ tasks # <<>>

CustomerRow(r) == [key |-> Strip(r.key), val |-> Clean(r.val)]

\* a completed first sync of a readable customers file: no file-state row
\* before the call
FirstSight ==
    /\ RunCompleted
    /\ ~run.pre.present
    /\ get_table_name(FileName(run.path)) = "customers"
    /\ ~DecodeFails(disk[run.path])

\* what C21 states of a first sync of n records
FirstSightOutcome(n) ==
    /\ tables.customers =
          run.pre_tables.customers \o [i \in 1..n |-> CustomerRow(disk[run.path].recs[i])]
    /\ Row.processing_status = "COMPLETED"
    /\ Row.record_count = n
    /\ ~Row.checksum_map.null
    /\ Cardinality(DOMAIN Row.checksum_map.obj) = n
    /\ Len(syncLog) = run.pre_log + 1
    /\ syncLog[Len(syncLog)] = SyncLogRow(run.path, "UPDATE", n, n, TRUE)

ScenarioTable(ks) == Table([i \in 1..Len(ks) |-> [key |-> <<ks[i]>>, val |-> <<"x">>]])

\* compute_deltas has returned for the snapshot of [A, B, C, D] and the
\* checksums of the file [A, C, D]
PhysicalDelete ==
    /\ DeltasComputed
    /\ run.old_checksums = compute_record_checksums(ScenarioTable(<<"A", "B", "C", "D">>))
    /\ run.new_checksums = compute_record_checksums(ScenarioTable(<<"A", "C", "D">>))

\* C22 as stated: with a snapshot of [A, B, C, D] at indices 0..3 (pairwise
\* distinct checksums) and a current file [A, C, D], compute_deltas yields
\* inserts = [], updates = [2] and deletes = [3].
C22_PhysicalDeleteUpdatesIndex2 ==
    PhysicalDelete =>
        run.deltas = [inserts |-> <<>>, updates |-> <<2>>, deletes |-> <<3>>]

\* C22 amended: compute_deltas yields inserts = [], updates = [1, 2] and
\* deletes = [3]: both records behind the removed one have moved.
C22_PhysicalDeleteUpdatesShifted ==
    PhysicalDelete =>
        run.deltas = [inserts |-> <<>>, updates |-> <<1, 2>>, deletes |-> <<3>>]

\* C22 witness: the call has returned for that snapshot and that file, whose
\* four checksums are pairwise distinct
C22_Witness ==
    /\ PhysicalDelete
    /\ Cardinality({run.old_checksums[i] : i \in 0..3}) = 4
    /\ has_changes(run.deltas)

\* the record a checksum of the stored snapshot was computed from
RecordOf(checksum) ==
    CHOOSE r \in DOMAIN CrcOf :
        \/ CrcOf[r] = checksum
        \/ r \in DOMAIN DeletedCrcOf /\ DeletedCrcOf[r] = checksum

\* the indices at which the file differs from the stored snapshot
Changed(prev, cur) ==
    (DOMAIN prev \ DOMAIN cur) \cup (DOMAIN cur \ DOMAIN prev)
    \cup {k \in DOMAIN prev \cap DOMAIN cur : prev[k] # cur[k]}

\* A sync completed on a customers or products file whose previous sync had
\* completed and applied its records; since then exactly the record at index
\* i changed, in its other field and not in its key.
PureUpdate(i) ==
    /\ RunCompleted
    /\ run.pre.processing_status = "COMPLETED"
    /\ get_table_name(FileName(run.path)) \in {"customers", "products"}
    /\ ~DecodeFails(disk[run.path])
    /\ Changed(previous_checksums(run.pre.checksum_map), run.current_checksums) = {i}
    /\ i \in DOMAIN previous_checksums(run.pre.checksum_map)
    /\ i \in DOMAIN run.current_checksums
    /\ RecordOf(previous_checksums(run.pre.checksum_map)[i]).key = disk[run.path].recs[i + 1].key
    /\ \E j \in 1..Len(RowsOf(run.pre_tables, get_table_name(FileName(run.path)))) :
          Strip(RowsOf(run.pre_tables, get_table_name(FileName(run.path)))[j].key)
             = Strip(disk[run.path].recs[i + 1].key)

\* C23: if exactly one record at index i changes in a non-key field between
\* two syncs, the second sync performs exactly one upsert (an update of the
\* row with that record's natural key, no insert), changes checksum_map[i]
\* and leaves every other checksum entry and every other domain row unchanged.
C23_PureUpdateTouchesOneRow ==
    \A i \in 0..(MaxRecs - 1) :
        PureUpdate(i) =>
            LET table_name == get_table_name(FileName(run.path))
                before == RowsOf(run.pre_tables, table_name)
                after == RowsOf(tables, table_name)
                record == disk[run.path].recs[i + 1]
                prev == previous_checksums(run.pre.checksum_map)
            IN /\ run.deltas = [inserts |-> <<>>, updates |-> <<i>>, deletes |-> <<>>]
               /\ run.records_processed = 1
               /\ Len(after) = Len(before)
               /\ \A j \in 1..Len(before) :
                     IF Strip(before[j].key) = Strip(record.key)
                     THEN after[j].val = record.val
                     ELSE after[j] = before[j]
               /\ \A t \in TableNames \ {table_name} : tables[t] = run.pre_tables[t]
               /\ previous_checksums(Row.checksum_map)
                     = [prev EXCEPT ![i] = run.current_checksums[i]]
               /\ run.current_checksums[i] # prev[i]

\* a call of bulk_load_file raised while it processed a batch: the offset
\* run.batch of that batch lies inside the records
BulkFailedInBatch ==
    /\ run.pc = "done"
    /\ run.op = "bulk_load_file"
    /\ run.result = "raised"
    /\ run.batch < Len(run.all_records)

\* the rows of the batches before the failing one are committed, those of
\* the failing batch are not, and no file-state snapshot is written
BulkFailureKeepsEarlierBatches ==
    /\ tables = BatchLoop(run.pre_tables, get_table_name(FileName(run.path)),
                          SubSeq(run.all_records, 1, run.batch))
    /\ get_table_name(FileName(run.path)) = "movements"
          => Len(tables.movements) = Len(run.pre_tables.movements) + run.batch
    /\ fileState = [fileState EXCEPT ![run.path] = run.pre]

\* exactly one entry was appended by the call, a BULK_LOAD entry with
\* success = false
BulkFailureLogged ==
    /\ Len(syncLog) = run.pre_log + 1
    /\ syncLog[Len(syncLog)] = SyncLogRow(run.path, "BULK_LOAD", 0, 0, FALSE)

C25_SyncLogAppendOnly ==
    [][/\ Len(syncLog') >= Len(syncLog)
       /\ SubSeq(syncLog', 1, Len(syncLog)) = syncLog
       /\ run'.pc # "idle" => Len(syncLog') <= run'.pre_log + 1]_vars

\* C25 witness: a call has ended that appended one entry behind an older one
C25_Witness ==
    /\ run.pc = "done"
    /\ run.pre_log >= 1
    /\ Len(syncLog) = run.pre_log + 1
    /\ syncLog[Len(syncLog)] # syncLog[run.pre_log]

\* C26: movements are append-only: in a completed sync of a readable movements
\* file every record whose index is in inserts or updates yields exactly one
\* new movements row, so the row count grows by exactly the number of those
\* indices, and no existing movements row is modified.
C26_MovementsAppendPerRecord ==
    (/\ RunCompleted
     /\ get_table_name(FileName(run.path)) = "movements"
     /\ ~DecodeFails(disk[run.path]))
        => /\ Len(tables.movements)
                 = Len(run.pre_tables.movements)
                   + Len(run.deltas.inserts) + Len(run.deltas.updates)
           /\ SubSeq(tables.movements, 1, Len(run.pre_tables.movements))
                 = run.pre_tables.movements

\* the bytes of a raw file from offset header_length + i * record_length, up
\* to record_length of them
SliceAt(raw, i) ==
    SubSeq(raw.data, i * raw.record_length + 1,
           Min({(i + 1) * raw.record_length, Len(raw.data)}))

\* C27: compute_record_checksums returns a map whose keys are exactly the
\* indices i < num_records for which a full slice of record_length bytes lies
\* at offset header_length + i * record_length, each mapped to the unsigned
\* 32-bit CRC-32 of that slice; a short slice at the end gets no entry.
C27_ChecksumsOfFullSlices ==
    (run.pc = "done" /\ run.op = "compute_record_checksums" /\ run.raw.header_ok)
        => LET raw == run.raw
               full == {i \in 0..(raw.num_records - 1) :
                           (i + 1) * raw.record_length <= Len(raw.data)}
           IN /\ DOMAIN run.checksums = full
              /\ \A i \in full :
                    /\ run.checksums[i] = crc32(SliceAt(raw, i))
                    /\ run.checksums[i][1] \in 0..65535
                    /\ run.checksums[i][2] \in 0..65535

\* C27 witness: a file whose header counts three records of two bytes and
\* that ends one byte into the second: one entry, none for the short slice
C27_Witness ==
    /\ run.pc = "done"
    /\ run.op = "compute_record_checksums"
    /\ run.raw.header_ok
    /\ run.raw.num_records = 3
    /\ run.raw.record_length = 2
    /\ Len(run.raw.data) = 3
    /\ DOMAIN run.checksums = {0}

\* C28: the initial scan submits the target files present at startup to
\* process_dbf_file one at a time, and each call it has awaited leaves the
\* file in COMPLETED or ERROR (whether it returned or raised), after which the
\* scan goes on with the next file.
C28_ScannedFileEndsCompletedOrError ==
    /\ run.caller = ScanCaller
          => (scan.state = "calling" /\ run.path = Head(scan.files))
    /\ (run.pc = "done" /\ run.caller = ScanCaller)
          => Row.processing_status \in {"COMPLETED", "ERROR"}

\* a stored string value is trimmed, and NULL stands for the empty string
Normalized(v) == v = Null \/ (v # <<>> /\ Strip(v) = v)

\* C29: for customers and products every string value written by an upsert,
\* on the insert and on the update path alike, is trimmed, and an empty
\* string is stored as null.
C29_StoredValuesNormalized ==
    \A table_name \in {"customers", "products"} :
        \A i \in 1..Len(RowsOf(tables, table_name)) :
            /\ Normalized(RowsOf(tables, table_name)[i].key)
            /\ Normalized(RowsOf(tables, table_name)[i].val)

\* a completed first sync of a readable customers or products file
KeyedSight ==
    /\ RunCompleted
    /\ ~run.pre.present
    /\ get_table_name(FileName(run.path)) \in {"customers", "products"}
    /\ ~DecodeFails(disk[run.path])

\* the records of the file that carry a natural key, in file order
KeyedRecords(recs) == SelectSeq(recs, LAMBDA r : Strip(r.key) # <<>>)

C31_NoSilentLoss ==
    (RunCompleted /\ run.applied)
        => run.records_processed
              = Len(run.deltas.deletes) + Len(run.deltas.inserts) + Len(run.deltas.updates)

\* C32: the in-flight set tracks the tasks: whenever a sync task for a path
\* has been scheduled by on_modified and has not yet finished, the path is in
\* the in-flight set.
C32_InFlightSetTracksTasks ==
    \A t \in 1..Len(tasks) : tasks[t].path \in processing

\* the key set of a stored snapshot is {"0", ..., "n-1"}
ContiguousKeys(checksum_map) ==
    DOMAIN checksum_map.obj
        = {ToStr(i) : i \in 0..(Cardinality(DOMAIN checksum_map.obj) - 1)}

\* the indices first, ..., last - 1 in ascending order
IndexRange(first_index, last_index) ==
    [k \in 1..(last_index - first_index) |-> first_index + k - 1]

\* process_dbf_file has computed the deltas of the running or completed sync
SyncDiffed ==
    /\ run.op = "process_dbf_file"
    /\ run.pc \in {"apply", "update", "commit"} \/ RunCompleted

C33_GrowthReached ==
    /\ SyncDiffed
    /\ Cardinality(DOMAIN run.pre.checksum_map.obj) = 1
    /\ run.deltas.inserts = <<1>>

\* C34: a file-state row left in PROCESSING by a crashed or killed sync does
\* not block the file: the next process_dbf_file call for that path, if it is
\* not killed itself, ends with the row in COMPLETED or ERROR.
C34_ProcessingRowDoesNotBlock ==
    (RunEnded /\ run.pre.processing_status = "PROCESSING")
        => Row.processing_status \in {"COMPLETED", "ERROR"}

====
